---- MODULE Spec2Model ----
(***************************************************************************)
(* Noise engine of the focus timer (src/unnamed/part_001): the module-level *)
(* state, the exported operations startNoise / stopBrownNoise /             *)
(* changeNoiseType / setBrownNoiseVolume, and the host-lifecycle listeners. *)
(*                                                                          *)
(* Units: a volume is an integer number of tenths (3 stands for 0.3), a     *)
(* filter Q an integer number of thousandths (707 stands for 0.707), a      *)
(* corner frequency an integer number of Hz.                                *)
(*                                                                          *)
(* Web Audio nodes are objects with identity: every node the engine creates *)
(* gets a fresh id from nextId, and a node's connections are the set `out`  *)
(* of ids it was connect()-ed to.                                           *)
(*                                                                          *)
(* Timer UI (src/unnamed/part_000): the App component's state, its event    *)
(* handlers and its effects, driving the engine above.  A handler reads the *)
(* state of the render that created it; the state updates it makes are      *)
(* committed together, and then the effects whose dependencies changed run. *)
(*                                                                          *)
(* Multi-band module (src/src/brownNoise.js): an older engine with the same *)
(* module-level state, whose session is seven filtered bands.  Its gain     *)
(* values are quotients and are kept as fractions [num, den].               *)
(***************************************************************************)
EXTENDS Integers, Sequences, FiniteSets, TLC

\* ------------------------------------------------------------------ bounds
\* Volumes range over 0..MaxVolume tenths.
MaxVolume == 3
\* Node ids are handed out up to MaxNodes; a start that would need more is
\* not taken.
MaxNodes == 7
\* The timer UI's countdown is followed from MaxCountdown seconds down.
MaxCountdown == 60
\* ... and until MaxPomodoros focus intervals were completed.
MaxPomodoros == 2
\* The multi-band module is given node ids up to MaxBandNodes.
MaxBandNodes == 42

\* --------------------------------------------------------------- constants
DefaultVolume == 3
DefaultNoiseType == "brown"
\* ctx.destination, the output sink: the one node the engine does not create.
Destination == 0
PinkCorner == 100
BrownCorner1 == 500
BrownCorner2 == 200
FilterQ == 707
\* The timer UI: minutes are counted down in seconds.
SecondsPerMinute == 60
DefaultFocusMinutes == 25
DefaultBreakMinutes == 5

NoiseTypes == {"white", "pink", "brown"}
Volumes == 0..MaxVolume
ContextStates == {"suspended", "running"}
InteractionEvents == {"click", "touchstart"}

VARIABLES
  audioContext,      \* [exists, state, resumeRequested]
  bufferSources,     \* sequence of buffer-source nodes
  gainNodes,         \* sequence of gain nodes
  filterNodes,       \* sequence of biquad filter nodes
  isPlaying,
  currentVolume,
  currentNoiseType,
  hidden,            \* document.hidden
  resumeListeners,   \* the document events the resume closure listens to
  thenPending,       \* a resume().then(removeListeners) is outstanding
  hostListeners,     \* how many listeners each lifecycle event has
  nextId,            \* ids handed out so far
  op                 \* the last operation, its arguments and what it did

\* The App component's state (useState, lines 14-28) and the closure the
\* keyboard effect registered on window.
VARIABLES
  focusMinutes,
  breakMinutes,
  timeRemaining,     \* seconds
  isRunning,
  isPaused,
  isBreak,
  noiseVolume,
  uiNoiseType,       \* the component's noiseType
  pomodoroCount,
  keyHandler         \* the render state handleKeyPress was created in

uiVars == <<focusMinutes, breakMinutes, timeRemaining, isRunning, isPaused,
            isBreak, noiseVolume, uiNoiseType, pomodoroCount, keyHandler>>

vars == <<audioContext, bufferSources, gainNodes, filterNodes, isPlaying,
          currentVolume, currentNoiseType, hidden, resumeListeners,
          thenPending, hostListeners, nextId, op, uiVars>>

NoContext == [exists |-> FALSE, state |-> "none", resumeRequested |-> FALSE]

\* What one call or event did beyond the state it left: whether it raised
\* to its caller, whether a catch block of it swallowed an error, whether it
\* called ctx.resume(), whether it ran the AudioContext constructor, whether
\* a then-callback removed the click / touchstart listeners, and how many
\* times the event's lifecycle listener ran.
NoEffects ==
  [raised |-> FALSE, caught |-> FALSE, resumeCalled |-> FALSE,
   ctorCalled |-> FALSE, listenersRemoved |-> FALSE, handlerRuns |-> 0]

\* The engine state as one record, the form the operations below work on.
\* (fx is the record of the running call's effects.)
State ==
  [audioContext |-> audioContext, bufferSources |-> bufferSources,
   gainNodes |-> gainNodes, filterNodes |-> filterNodes,
   isPlaying |-> isPlaying, currentVolume |-> currentVolume,
   currentNoiseType |-> currentNoiseType,
   resumeListeners |-> resumeListeners, thenPending |-> thenPending,
   hostListeners |-> hostListeners, nextId |-> nextId, fx |-> NoEffects]

\* The part of the state the engine's operations are specified over.
Engine(s) ==
  [audioContext |-> s.audioContext, bufferSources |-> s.bufferSources,
   gainNodes |-> s.gainNodes, filterNodes |-> s.filterNodes,
   isPlaying |-> s.isPlaying, currentVolume |-> s.currentVolume,
   currentNoiseType |-> s.currentNoiseType]

\* ------------------------------------------------------------ audio context

\* ctx.resume(): on a suspended context the request stays pending until the
\* platform grants it; on a running context it changes nothing.
ctxResume(s) ==
  [s EXCEPT !.audioContext.resumeRequested =
                 (s.audioContext.state = "suspended") \/ @,
            !.fx.resumeCalled = TRUE]

\* Lines 17-30: construct the context and, when it comes up suspended,
\* register the resume closure for click and touchstart.  ctorOk says
\* whether `new AudioContext()` succeeds, ctorState the state the platform
\* creates the context in.
createContext(s, ctorOk, ctorState) ==
  IF ~ctorOk
    THEN [s EXCEPT !.fx.raised = TRUE, !.fx.ctorCalled = TRUE]
    ELSE [s EXCEPT
            !.audioContext = [exists |-> TRUE, state |-> ctorState,
                              resumeRequested |-> FALSE],
            !.resumeListeners =
                IF ctorState = "suspended" THEN @ \cup InteractionEvents ELSE @,
            !.fx.ctorCalled = TRUE]

\* Mutant: the lifecycle listeners are registered by initAudioContext, on
\* every call, instead of once when the module is loaded.
initAudioContextRegistersListeners(s, ctorOk, ctorState) ==
  LET s1 == IF s.audioContext.exists THEN s
            ELSE createContext(s, ctorOk, ctorState)
  IN [s1 EXCEPT !.hostListeners =
         [visibilitychange |-> @.visibilitychange + 1,
          beforeunload |-> @.beforeunload + 1]]

\* initAudioContext()
initAudioContext(s, ctorOk, ctorState) ==
  IF s.audioContext.exists THEN s
  ELSE createContext(s, ctorOk, ctorState)

\* ------------------------------------------------------------- startNoise

\* Mutant: the chains built with the parameters of the unused helpers
\* createPinkNoiseFilter (20 Hz, Q left at the platform's 1) and
\* createBrownNoiseFilters (1000 Hz, then 500 Hz).
buildFiltersFromHelpers(noiseType, firstId, gainId) ==
  IF noiseType = "pink" THEN
    << [id |-> firstId, type |-> "highpass", frequency |-> 20,
        Q |-> 1000, out |-> {gainId}] >>
  ELSE IF noiseType = "brown" THEN
    << [id |-> firstId, type |-> "lowpass", frequency |-> 1000,
        Q |-> 707, out |-> {firstId + 1}],
       [id |-> firstId + 1, type |-> "lowpass", frequency |-> 500,
        Q |-> 707, out |-> {gainId}] >>
  ELSE << >>

\* The biquad filters startNoise creates for noiseType, in chain order: the
\* first gets id firstId, each is connected to the next and the last to the
\* gain node.  White gets none.
buildFilters(noiseType, firstId, gainId) ==
  IF noiseType = "pink" THEN
    << [id |-> firstId, type |-> "highpass", frequency |-> PinkCorner,
        Q |-> FilterQ, out |-> {gainId}] >>
  ELSE IF noiseType = "brown" THEN
    << [id |-> firstId, type |-> "lowpass", frequency |-> BrownCorner1,
        Q |-> FilterQ, out |-> {firstId + 1}],
       [id |-> firstId + 1, type |-> "lowpass", frequency |-> BrownCorner2,
        Q |-> FilterQ, out |-> {gainId}] >>
  ELSE << >>

\* What the buffer source is connected to: the gain node for white, the
\* first filter for pink and brown (and nothing when no branch matches).
sourceOutputs(noiseType, firstFilterId, gainId) ==
  IF noiseType = "white" THEN {gainId}
  ELSE IF noiseType \in {"pink", "brown"} THEN {firstFilterId}
  ELSE {}

\* The number of nodes one session of noiseType takes.
nodesNeeded(noiseType) == 2 + Len(buildFilters(noiseType, 1, 1))

\* Lines 95-151: record type and volume, create source, gain and filters,
\* connect them, start the source, keep the references, set the flag.
buildSession(s, noiseType, volume) ==
  LET sourceId == s.nextId + 1
      gainId   == s.nextId + 2
      filterId == s.nextId + 3
      filters  == buildFilters(noiseType, filterId, gainId)
      source   == [id |-> sourceId, loop |-> TRUE, started |-> TRUE,
                   halted |-> FALSE,
                   out |-> sourceOutputs(noiseType, filterId, gainId)]
      gainNode == [id |-> gainId, gain |-> volume, out |-> {Destination}]
  IN [s EXCEPT !.currentVolume = volume,
               !.currentNoiseType = noiseType,
               !.filterNodes = @ \o filters,
               !.bufferSources = Append(@, source),
               !.gainNodes = Append(@, gainNode),
               !.nextId = @ + 2 + Len(filters),
               !.isPlaying = TRUE]

\* Mutant: type and volume are recorded before the context is obtained.
startSessionRecordsFirst(s, noiseType, volume, ctorOk, ctorState) ==
  LET s0 == [s EXCEPT !.currentVolume = volume,
                      !.currentNoiseType = noiseType]
      s1 == initAudioContext(s0, ctorOk, ctorState)
      s2 == IF s1.audioContext.state = "suspended" THEN ctxResume(s1) ELSE s1
  IN IF s1.fx.raised THEN s1 ELSE buildSession(s2, noiseType, volume)

\* Lines 88-151: startNoise past its guard.  A failing constructor raises
\* out of initAudioContext before anything is assigned.
startSession(s, noiseType, volume, ctorOk, ctorState) ==
  LET s1 == initAudioContext(s, ctorOk, ctorState)
      s2 == IF s1.audioContext.state = "suspended" THEN ctxResume(s1) ELSE s1
  IN IF s1.fx.raised THEN s1 ELSE buildSession(s2, noiseType, volume)

\* Mutant: startNoise without its `if (isPlaying) return`.
startNoiseUnguarded(s, noiseType, volume, ctorOk, ctorState) ==
  startSession(s, noiseType, volume, ctorOk, ctorState)

startNoise(s, noiseType, volume, ctorOk, ctorState) ==
  IF s.isPlaying THEN s
  ELSE startSession(s, noiseType, volume, ctorOk, ctorState)

\* startBrownNoise(volume), kept for backward compatibility.
startBrownNoise(s, volume, ctorOk, ctorState) ==
  startNoise(s, "brown", volume, ctorOk, ctorState)

\* --------------------------------------------------------- stopBrownNoise

\* source.stop() on the platform: raises when the player is already halted.
sourceStop(source) ==
  IF source.halted THEN [node |-> source, raised |-> TRUE, caught |-> FALSE]
  ELSE [node |-> [source EXCEPT !.started = FALSE], raised |-> FALSE,
        caught |-> FALSE]

\* Mutant: source.stop() called outside any try / catch.
tryStopWithoutCatch(source) == sourceStop(source)

\* try { source.stop() } catch (e) { }
tryStop(source) ==
  LET r == sourceStop(source)
  IN [node |-> r.node, raised |-> FALSE, caught |-> r.raised]

\* Lines 162-168: bufferSources.forEach(source => try-stop).  An error
\* escaping the callback would end the loop and the function at the first
\* source that raises.
stopSources(s) ==
  LET n       == Len(s.bufferSources)
      results == [i \in 1..n |-> tryStop(s.bufferSources[i])]
      escaped == {i \in 1..n : results[i].raised}
  IN [s EXCEPT !.fx.raised = (escaped # {}),
               !.fx.caught = \E i \in 1..n :
                                results[i].caught /\ \A j \in escaped : i < j,
               !.bufferSources =
                  [i \in 1..n |->
                     IF \A j \in escaped : i < j
                     THEN results[i].node ELSE s.bufferSources[i]]]

\* Mutant: the filter list is not emptied.
releaseSessionKeepsFilters(s) ==
  [s EXCEPT !.bufferSources = << >>,
            !.gainNodes = << >>,
            !.isPlaying = FALSE]

\* Mutant: the playing flag is not cleared.
releaseSessionKeepsFlag(s) ==
  [s EXCEPT !.bufferSources = << >>,
            !.gainNodes = << >>,
            !.filterNodes = << >>]

\* Lines 170-173: drop every node reference and clear the flag.
releaseSession(s) ==
  [s EXCEPT !.bufferSources = << >>,
            !.gainNodes = << >>,
            !.filterNodes = << >>,
            !.isPlaying = FALSE]

stopBrownNoise(s) ==
  IF ~s.isPlaying THEN s
  ELSE LET s1 == stopSources(s)
       IN IF s1.fx.raised THEN s1 ELSE releaseSession(s1)

\* ------------------------------------------- changeNoiseType and setVolume

\* Mutant: the restart is not guarded by isPlaying.
changeNoiseTypeAlwaysRestarts(s, noiseType, ctorOk, ctorState) ==
  LET stopped == stopBrownNoise(s)
  IN startNoise(stopped, noiseType, stopped.currentVolume, ctorOk, ctorState)

\* Mutant: the restart leaves the volume argument out, so that startNoise
\* falls back to its default.
changeNoiseTypeDefaultVolume(s, noiseType, ctorOk, ctorState) ==
  IF s.isPlaying
  THEN startNoise(stopBrownNoise(s), noiseType, DefaultVolume,
                  ctorOk, ctorState)
  ELSE s

changeNoiseType(s, noiseType, ctorOk, ctorState) ==
  IF s.isPlaying
  THEN LET stopped == stopBrownNoise(s)
       IN IF stopped.fx.raised THEN stopped
          ELSE startNoise(stopped, noiseType, stopped.currentVolume,
                          ctorOk, ctorState)
  ELSE s

\* Mutant: the volume is stored and the live gain nodes are left alone.
setBrownNoiseVolumeStoreOnly(s, volume) ==
  [s EXCEPT !.currentVolume = volume]

\* Mutant: the call returns early on an idle engine.
setBrownNoiseVolumeOnlyWhilePlaying(s, volume) ==
  IF ~s.isPlaying THEN s
  ELSE [s EXCEPT !.currentVolume = volume,
                 !.gainNodes = [i \in DOMAIN @ |-> [@[i] EXCEPT !.gain = volume]]]

\* Mutant: the volume is applied by rebuilding the session.
setBrownNoiseVolumeByRestart(s, volume) ==
  IF s.isPlaying
  THEN buildSession(releaseSession(s), s.currentNoiseType, volume)
  ELSE [s EXCEPT !.currentVolume = volume]

setBrownNoiseVolume(s, volume) ==
  [s EXCEPT !.currentVolume = volume,
            !.gainNodes = [i \in DOMAIN @ |-> [@[i] EXCEPT !.gain = volume]]]

isBrownNoisePlaying(s) == s.isPlaying

\* --------------------------------------------------------- host lifecycle

\* Mutant: the listener stops the noise when the page is hidden.
onVisibilityChangeStopsWhenHidden(s, isHidden, ctorOk, ctorState) ==
  IF isHidden /\ s.isPlaying THEN stopBrownNoise(s)
  ELSE IF ~isHidden /\ s.isPlaying THEN
    LET s1 == initAudioContext(s, ctorOk, ctorState)
    IN IF s1.fx.raised THEN s1
       ELSE IF s1.audioContext.state = "suspended" THEN ctxResume(s1)
       ELSE s1
  ELSE s

\* Mutant: the page-shown branch does not test isPlaying.
onVisibilityChangeIgnoresPlaying(s, isHidden, ctorOk, ctorState) ==
  IF isHidden /\ s.isPlaying THEN s
  ELSE IF ~isHidden THEN
    LET s1 == initAudioContext(s, ctorOk, ctorState)
    IN IF s1.fx.raised THEN s1
       ELSE IF s1.audioContext.state = "suspended" THEN ctxResume(s1)
       ELSE s1
  ELSE s

\* The visibilitychange listener, run with document.hidden = isHidden.
onVisibilityChange(s, isHidden, ctorOk, ctorState) ==
  IF isHidden /\ s.isPlaying THEN s
  ELSE IF ~isHidden /\ s.isPlaying THEN
    LET s1 == initAudioContext(s, ctorOk, ctorState)
    IN IF s1.fx.raised THEN s1
       ELSE IF s1.audioContext.state = "suspended" THEN ctxResume(s1)
       ELSE s1
  ELSE s

\* Mutant: the listener leaves the session alone.
onBeforeUnloadKeepsSession(s) == s

\* The beforeunload listener.
onBeforeUnload(s) == stopBrownNoise(s)

\* A visibilitychange event delivered to its n listeners in turn.
RECURSIVE dispatchVisibilityChange(_, _, _, _, _)
dispatchVisibilityChange(s, n, isHidden, ctorOk, ctorState) ==
  IF n = 0 THEN s
  ELSE dispatchVisibilityChange(
         [onVisibilityChange(s, isHidden, ctorOk, ctorState)
            EXCEPT !.fx.handlerRuns = @ + 1],
         n - 1, isHidden, ctorOk, ctorState)

\* A beforeunload event delivered to its n listeners in turn.
RECURSIVE dispatchBeforeUnload(_, _)
dispatchBeforeUnload(s, n) ==
  IF n = 0 THEN s
  ELSE dispatchBeforeUnload(
         [onBeforeUnload(s) EXCEPT !.fx.handlerRuns = @ + 1], n - 1)

\* Lines 24-25, the then-callback of the resume closure: both listeners are
\* removed.
removeResumeListeners(s) ==
  [s EXCEPT !.resumeListeners = {},
            !.thenPending = FALSE,
            !.fx.listenersRemoved = TRUE]

\* Mutant: resume() is called without a then-callback.
onInteractionKeepsListeners(s) == ctxResume(s)

\* The resume closure of initAudioContext, run by a click or touchstart it is
\* registered for: audioContext.resume().then(remove both listeners).  The
\* promise of a running context is already resolved, and its callback runs
\* as the closure returns; that of a suspended one stays pending.
onInteraction(s) ==
  IF s.audioContext.state = "running"
  THEN removeResumeListeners(ctxResume(s))
  ELSE [ctxResume(s) EXCEPT !.thenPending = TRUE]

\* The platform grants the pending resume request: the context runs, the
\* pending resume() promises resolve and their then-callbacks run.
contextResumed(s) ==
  LET s1 == [s EXCEPT !.audioContext.state = "running",
                      !.audioContext.resumeRequested = FALSE]
  IN IF s.thenPending THEN removeResumeListeners(s1) ELSE s1

\* ------------------------------------------------------------ transitions

Init ==
  /\ audioContext = NoContext
  /\ bufferSources = << >>
  /\ gainNodes = << >>
  /\ filterNodes = << >>
  /\ isPlaying = FALSE
  /\ currentVolume = DefaultVolume
  /\ currentNoiseType = DefaultNoiseType
  /\ hidden = FALSE
  /\ resumeListeners = {}
  /\ thenPending = FALSE
  /\ hostListeners = [visibilitychange |-> 1, beforeunload |-> 1]
  /\ nextId = 0
  /\ op = [name |-> "init", noiseType |-> "none", volume |-> 0,
           wasPlaying |-> FALSE, raised |-> FALSE, caught |-> FALSE,
           resumeCalled |-> FALSE, ctorCalled |-> FALSE,
           listenersRemoved |-> FALSE, handlerRuns |-> 0]
  /\ focusMinutes = DefaultFocusMinutes
  /\ breakMinutes = DefaultBreakMinutes
  /\ timeRemaining = DefaultFocusMinutes * SecondsPerMinute
  /\ isRunning = FALSE
  /\ isPaused = FALSE
  /\ isBreak = FALSE
  /\ noiseVolume = DefaultVolume
  /\ uiNoiseType = DefaultNoiseType
  /\ pomodoroCount = 0
  /\ keyHandler = [isRunning |-> FALSE, isPaused |-> FALSE,
                   focusMinutes |-> DefaultFocusMinutes]

\* The engine state s becomes the current engine state, as the result of
\* operation `name` called with (noiseType, volume); op records the call,
\* whether the engine was playing when it was made, and what it did.
InstallEngine(s, name, noiseType, volume) ==
  /\ audioContext' = s.audioContext
  /\ bufferSources' = s.bufferSources
  /\ gainNodes' = s.gainNodes
  /\ filterNodes' = s.filterNodes
  /\ isPlaying' = s.isPlaying
  /\ currentVolume' = s.currentVolume
  /\ currentNoiseType' = s.currentNoiseType
  /\ resumeListeners' = s.resumeListeners
  /\ thenPending' = s.thenPending
  /\ hostListeners' = s.hostListeners
  /\ nextId' = s.nextId
  /\ op' = [name |-> name, noiseType |-> noiseType, volume |-> volume,
            wasPlaying |-> isPlaying, raised |-> s.fx.raised,
            caught |-> s.fx.caught, resumeCalled |-> s.fx.resumeCalled,
            ctorCalled |-> s.fx.ctorCalled,
            listenersRemoved |-> s.fx.listenersRemoved,
            handlerRuns |-> s.fx.handlerRuns]

\* An operation of the engine called directly: the timer UI is not involved.
Install(s, name, noiseType, volume) ==
  /\ InstallEngine(s, name, noiseType, volume)
  /\ UNCHANGED uiVars

\* The outcomes of `new AudioContext()` a call may meet: whether it succeeds
\* and the state of the context it makes.  The constructor runs only while
\* no context exists, so one outcome stands for all once it does.
CtorOutcomes ==
  IF audioContext.exists THEN {<<TRUE, "running">>}
  ELSE BOOLEAN \X ContextStates

\* A session of noiseType can still be given fresh node ids.
HasIds(noiseType) == nextId + nodesNeeded(noiseType) <= MaxNodes

\* startNoise(noiseType, volume)
Start ==
  \E noiseType \in NoiseTypes, volume \in Volumes, ctor \in CtorOutcomes :
    /\ isPlaying \/ HasIds(noiseType)
    /\ Install(startNoise(State, noiseType, volume, ctor[1], ctor[2]),
               "start", noiseType, volume)
    /\ UNCHANGED hidden

\* startNoise() with both arguments left to their defaults
StartDefault ==
  \E ctor \in CtorOutcomes :
    /\ isPlaying \/ HasIds(DefaultNoiseType)
    /\ Install(startNoise(State, DefaultNoiseType, DefaultVolume,
                          ctor[1], ctor[2]),
               "start", DefaultNoiseType, DefaultVolume)
    /\ UNCHANGED hidden

\* startBrownNoise(volume)
StartBrown ==
  \E volume \in Volumes, ctor \in CtorOutcomes :
    /\ isPlaying \/ HasIds("brown")
    /\ Install(startBrownNoise(State, volume, ctor[1], ctor[2]),
               "start", "brown", volume)
    /\ UNCHANGED hidden

\* stopBrownNoise()
Stop ==
  /\ Install(stopBrownNoise(State), "stop", "none", 0)
  /\ UNCHANGED hidden

\* changeNoiseType(noiseType)
ChangeType ==
  \E noiseType \in NoiseTypes, ctor \in CtorOutcomes :
    /\ ~isPlaying \/ HasIds(noiseType)
    /\ Install(changeNoiseType(State, noiseType, ctor[1], ctor[2]),
               "changeType", noiseType, 0)
    /\ UNCHANGED hidden

\* setBrownNoiseVolume(volume)
SetVolume ==
  \E volume \in Volumes :
    /\ Install(setBrownNoiseVolume(State, volume), "setVolume", "none", volume)
    /\ UNCHANGED hidden

\* The page is hidden or shown: document.hidden flips and the
\* visibilitychange listener runs.
VisibilityChange ==
  \E ctor \in CtorOutcomes :
    /\ hidden' = ~hidden
    /\ Install(dispatchVisibilityChange(State, hostListeners.visibilitychange,
                                        ~hidden, ctor[1], ctor[2]),
               IF hidden THEN "pageShown" ELSE "pageHidden", "none", 0)

\* The page is about to unload.
BeforeUnload ==
  /\ Install(dispatchBeforeUnload(State, hostListeners.beforeunload),
             "beforeUnload", "none", 0)
  /\ UNCHANGED hidden

\* A click or touchstart on the document: runs the resume closure while it
\* is registered for the event.
UserInteraction ==
  \E event \in InteractionEvents :
    /\ Install(IF event \in resumeListeners THEN onInteraction(State) ELSE State,
               event, "none", 0)
    /\ UNCHANGED hidden

\* The platform grants a pending resume request.
PlatformResumes ==
  /\ audioContext.state = "suspended"
  /\ audioContext.resumeRequested
  /\ Install(contextResumed(State), "platformResumes", "none", 0)
  /\ UNCHANGED hidden

\* The platform suspends a running context (a backgrounded page, an
\* interruption): outside the engine's control.
PlatformSuspends ==
  /\ audioContext.state = "running"
  /\ Install([State EXCEPT !.audioContext.state = "suspended"],
             "platformSuspends", "none", 0)
  /\ UNCHANGED hidden

\* The platform halts the buffer player of the live session: a later
\* source.stop() raises.
PlatformHaltsSource ==
  /\ bufferSources # << >>
  /\ \E i \in DOMAIN bufferSources : ~bufferSources[i].halted
  /\ Install([State EXCEPT !.bufferSources =
                 [i \in DOMAIN @ |-> [@[i] EXCEPT !.halted = TRUE]]],
             "platformHalts", "none", 0)
  /\ UNCHANGED hidden

Next ==
  \/ Start
  \/ StartDefault
  \/ StartBrown
  \/ Stop
  \/ ChangeType
  \/ SetVolume
  \/ VisibilityChange
  \/ BeforeUnload
  \/ UserInteraction
  \/ PlatformResumes
  \/ PlatformSuspends
  \/ PlatformHaltsSource

Spec == Init /\ [][Next]_vars

TypeOK ==
  /\ isPlaying \in BOOLEAN
  /\ currentVolume \in Volumes
  /\ nextId \in 0..MaxNodes

\* ================================================================ timer UI
\* src/unnamed/part_000.  The operations below work on the component state
\* as a record u, on the engine state s, or on both as [ui |-> u, engine |-> s].

Timer ==
  [focusMinutes |-> focusMinutes, breakMinutes |-> breakMinutes,
   timeRemaining |-> timeRemaining, isRunning |-> isRunning,
   isPaused |-> isPaused, isBreak |-> isBreak, noiseVolume |-> noiseVolume,
   noiseType |-> uiNoiseType, pomodoroCount |-> pomodoroCount,
   keyHandler |-> keyHandler]

\* The text of a number input, as a sequence of characters.
DigitChars == <<"0", "1", "2", "3", "4", "5", "6", "7", "8", "9">>
IsDigit(c) == \E i \in DOMAIN DigitChars : DigitChars[i] = c
DigitValue(c) == (CHOOSE i \in DOMAIN DigitChars : DigitChars[i] = c) - 1

RECURSIVE leadingDigits(_, _)
leadingDigits(chars, acc) ==
  IF chars = << >> \/ ~IsDigit(Head(chars)) THEN acc
  ELSE leadingDigits(Tail(chars), 10 * acc + DigitValue(Head(chars)))

\* `parseInt(text) || fallback`: parseInt reads an optional sign and the
\* digits that follow, and gives NaN when there are none; NaN and 0 are
\* falsy, so the fallback stands in for them.
parseIntOr(chars, fallback) ==
  LET negative == chars # << >> /\ Head(chars) = "-"
      digits   == IF negative THEN Tail(chars) ELSE chars
      isNaN    == digits = << >> \/ ~IsDigit(Head(digits))
      value    == (IF negative THEN -1 ELSE 1) * leadingDigits(digits, 0)
  IN IF isNaN \/ value = 0 THEN fallback ELSE value

\* handleStartPause (lines 135-144), created in the render with state c.
handleStartPause(c, u) ==
  IF ~c.isRunning THEN [u EXCEPT !.isRunning = TRUE, !.isPaused = FALSE]
  ELSE IF ~c.isPaused THEN [u EXCEPT !.isPaused = TRUE]
  ELSE [u EXCEPT !.isPaused = FALSE]

\* handleReset (lines 146-152), created in the render with state c.
handleReset(c, u, s) ==
  [ui |-> [u EXCEPT !.isRunning = FALSE, !.isPaused = FALSE,
                    !.isBreak = FALSE,
                    !.timeRemaining = c.focusMinutes * SecondsPerMinute],
   engine |-> stopBrownNoise(s)]

\* handleTimerEnd (lines 94-115); the notification sound and the alert are
\* not part of the state modelled.
handleTimerEnd(u) ==
  IF ~u.isBreak
  THEN [u EXCEPT !.pomodoroCount = @ + 1, !.isBreak = TRUE,
                 !.timeRemaining = u.breakMinutes * SecondsPerMinute,
                 !.isRunning = FALSE, !.isPaused = FALSE]
  ELSE [u EXCEPT !.isBreak = FALSE,
                 !.timeRemaining = u.focusMinutes * SecondsPerMinute,
                 !.isRunning = FALSE, !.isPaused = FALSE]

\* The interval callback (lines 68-76): setTimeRemaining with an updater.
\* At prev <= 1 the updater calls handleTimerEnd and returns 0; the updater
\* runs while the component renders, so the updates handleTimerEnd makes are
\* applied after the updater's own result.
timerTick(u) ==
  IF u.timeRemaining <= 1
  THEN handleTimerEnd([u EXCEPT !.timeRemaining = 0])
  ELSE [u EXCEPT !.timeRemaining = @ - 1]

\* Mutant: the slider only stores the volume.
handleVolumeChangeStoreOnly(u, s, newVolume) ==
  [ui |-> [u EXCEPT !.noiseVolume = newVolume], engine |-> s]

\* handleVolumeChange (lines 165-171)
handleVolumeChange(u, s, newVolume) ==
  [ui |-> [u EXCEPT !.noiseVolume = newVolume],
   engine |-> IF u.isRunning /\ ~u.isPaused /\ ~u.isBreak
              THEN setBrownNoiseVolume(s, newVolume) ELSE s]

\* onChange of the noise-type select (lines 398-404).  The context exists
\* whenever the engine plays, so the constructor is not run.
onNoiseTypeChange(u, s, newType) ==
  [ui |-> [u EXCEPT !.noiseType = newType],
   engine |-> IF u.isRunning /\ ~u.isPaused /\ ~u.isBreak
              THEN changeNoiseType(s, newType, TRUE, "running") ELSE s]

\* onChange of the focus-minutes input (lines 359-365)
onFocusInputChange(u, chars) ==
  LET val == parseIntOr(chars, DefaultFocusMinutes)
  IN IF ~u.isRunning /\ ~u.isBreak
     THEN [u EXCEPT !.focusMinutes = val,
                    !.timeRemaining = val * SecondsPerMinute]
     ELSE [u EXCEPT !.focusMinutes = val]

\* onChange of the break-minutes input (lines 379-385)
onBreakInputChange(u, chars) ==
  LET val == parseIntOr(chars, DefaultBreakMinutes)
  IN IF ~u.isRunning /\ u.isBreak
     THEN [u EXCEPT !.breakMinutes = val,
                    !.timeRemaining = val * SecondsPerMinute]
     ELSE [u EXCEPT !.breakMinutes = val]

\* Mutant: the effect starts the noise whenever the timer runs unpaused,
\* break or not.
noiseEffectIgnoresBreak(prev, u, s) ==
  IF u.isRunning /\ ~u.isPaused
  THEN IF ~isBrownNoisePlaying(s)
       THEN startNoise(s, u.noiseType, u.noiseVolume, TRUE, "running")
       ELSE s
  ELSE IF isBrownNoisePlaying(s) THEN stopBrownNoise(s) ELSE s

\* The noise-control effect (lines 81-92), after a render that took the
\* component from state prev to state u: it runs when one of its
\* dependencies changed.  Its first start is made in the click or key event
\* that started the timer, where a new context comes up running.
noiseEffect(prev, u, s) ==
  IF <<prev.isRunning, prev.isPaused, prev.isBreak, prev.noiseVolume,
       prev.noiseType>>
       = <<u.isRunning, u.isPaused, u.isBreak, u.noiseVolume, u.noiseType>>
  THEN s
  ELSE IF u.isRunning /\ ~u.isPaused /\ ~u.isBreak
       THEN IF ~isBrownNoisePlaying(s)
            THEN startNoise(s, u.noiseType, u.noiseVolume, TRUE, "running")
            ELSE s
       ELSE IF isBrownNoisePlaying(s) THEN stopBrownNoise(s) ELSE s

\* The keyboard effect (lines 196-210): when isRunning or isPaused changed
\* it replaces the keydown listener by one created in the new render; any
\* other render leaves the registered listener as it is.
keyboardEffect(prev, u) ==
  IF <<prev.isRunning, prev.isPaused>> = <<u.isRunning, u.isPaused>> THEN u
  ELSE [u EXCEPT !.keyHandler =
          [isRunning |-> u.isRunning, isPaused |-> u.isPaused,
           focusMinutes |-> u.focusMinutes]]

\* The render that commits the updates of one event, and its effects.
render(prev, w) ==
  [ui |-> keyboardEffect(prev, w.ui),
   engine |-> noiseEffect(prev, w.ui, w.engine)]

\* handleKeyPress (lines 197-205) for the key with the given code.
handleKeyPress(u, s, code) ==
  IF code = "Space"
  THEN [ui |-> handleStartPause(u.keyHandler, u), engine |-> s]
  ELSE IF code = "KeyR" THEN handleReset(u.keyHandler, u, s)
  ELSE [ui |-> u, engine |-> s]

\* The texts typed into the focus-minutes and the break-minutes input.
TypedFocus == {<< >>, <<"0">>, <<"1">>, <<"-", "1">>}
TypedBreak == {<< >>, <<"0">>, <<"1">>}
\* The slider positions taken: muted and the default.
SliderStops == {0, DefaultVolume}
KeyCodes == {"Space", "KeyR"}

\* The world w becomes the current state, as the result of UI event `name`.
InstallUI(w, name) ==
  /\ w.engine.nextId <= MaxNodes
  /\ InstallEngine([w.engine EXCEPT !.fx = NoEffects], name, "none", 0)
  /\ focusMinutes' = w.ui.focusMinutes
  /\ breakMinutes' = w.ui.breakMinutes
  /\ timeRemaining' = w.ui.timeRemaining
  /\ isRunning' = w.ui.isRunning
  /\ isPaused' = w.ui.isPaused
  /\ isBreak' = w.ui.isBreak
  /\ noiseVolume' = w.ui.noiseVolume
  /\ uiNoiseType' = w.ui.noiseType
  /\ pomodoroCount' = w.ui.pomodoroCount
  /\ keyHandler' = w.ui.keyHandler
  /\ UNCHANGED hidden

\* Click on the start / pause / resume button.
ClickStartPause ==
  InstallUI(render(Timer, [ui |-> handleStartPause(Timer, Timer),
                           engine |-> State]), "ui")

\* Click on the reset button.
ClickReset ==
  InstallUI(render(Timer, handleReset(Timer, Timer, State)), "clickReset")

\* A keydown on window.
KeyDown ==
  \E code \in KeyCodes :
    InstallUI(render(Timer, handleKeyPress(Timer, State, code)),
              IF code = "KeyR" THEN "keyR" ELSE "ui")

\* The one-second interval fires; it exists while the timer runs unpaused.
Tick ==
  /\ isRunning /\ ~isPaused
  /\ timeRemaining <= MaxCountdown
  /\ pomodoroCount < MaxPomodoros
  /\ InstallUI(render(Timer, [ui |-> timerTick(Timer), engine |-> State]),
               "tick")

\* The volume slider is moved; it is rendered outside breaks.
VolumeChange ==
  \E newVolume \in SliderStops :
    /\ ~isBreak
    /\ InstallUI(render(Timer, handleVolumeChange(Timer, State, newVolume)),
                 "ui")

\* Another noise type is selected.
NoiseTypeChange ==
  \E newType \in NoiseTypes :
    InstallUI(render(Timer, onNoiseTypeChange(Timer, State, newType)),
              "ui")

\* The focus-minutes input is edited; it is disabled while isRunning.
FocusInput ==
  \E chars \in TypedFocus :
    /\ ~isRunning
    /\ InstallUI(render(Timer, [ui |-> onFocusInputChange(Timer, chars),
                                engine |-> State]), "ui")

\* The break-minutes input is edited; it is disabled while isRunning.
BreakInput ==
  \E chars \in TypedBreak :
    /\ ~isRunning
    /\ InstallUI(render(Timer, [ui |-> onBreakInputChange(Timer, chars),
                                engine |-> State]), "ui")

NextUI ==
  \/ ClickStartPause
  \/ ClickReset
  \/ KeyDown
  \/ Tick
  \/ VolumeChange
  \/ NoiseTypeChange
  \/ FocusInput
  \/ BreakInput

SpecUI == Init /\ [][NextUI]_vars

\* ======================================================= multi-band module
\* src/src/brownNoise.js.  Its module-level state has the names of the
\* engine's (audioContext, bufferSources, gainNodes, isPlaying,
\* currentVolume) and is kept in the same variables; its initAudioContext
\* (lines 13-31) and its visibilitychange listener (lines 127-138) are, line
\* by line, the engine's, and the operators initAudioContext, ctxResume,
\* stopSources and onVisibilityChange stand for them here too.

\* Line 46: the corner frequencies of the bands, in Hz.
Frequencies == <<100, 200, 400, 800, 1600, 3200, 6400>>

\* a / b, kept exact.
quotient(a, b) == [num |-> a, den |-> b]

\* Lines 48-82: one source, low-pass filter and gain node per frequency,
\* source -> filter -> gain -> destination; the module keeps the sources
\* and the gain nodes.
mbBuildBands(s, volume) ==
  LET n         == Len(Frequencies)
      sourceId(i) == s.nextId + 3 * (i - 1) + 1
      filterId(i) == s.nextId + 3 * (i - 1) + 2
      gainId(i)   == s.nextId + 3 * (i - 1) + 3
  IN [s EXCEPT
        !.bufferSources = @ \o
           [i \in 1..n |-> [id |-> sourceId(i), loop |-> TRUE,
                            started |-> TRUE, halted |-> FALSE,
                            out |-> {filterId(i)}]],
        !.gainNodes = @ \o
           [i \in 1..n |-> [id |-> gainId(i), gain |-> quotient(volume, n),
                            out |-> {Destination}]],
        !.nextId = @ + 3 * n]

\* Mutant: every band gets the whole volume.
mbStartSessionUndivided(s, volume, ctorOk, ctorState) ==
  LET s1 == initAudioContext(s, ctorOk, ctorState)
      s2 == IF s1.audioContext.state = "suspended" THEN ctxResume(s1) ELSE s1
      s3 == mbBuildBands([s2 EXCEPT !.currentVolume = volume], volume)
  IN IF s1.fx.raised THEN s1
     ELSE [s3 EXCEPT !.isPlaying = TRUE,
                     !.gainNodes = [i \in DOMAIN @ |->
                        [@[i] EXCEPT !.gain = quotient(volume, 1)]]]

\* Lines 36-84: startBrownNoise past its guard.  A failing constructor
\* raises out of initAudioContext before anything is assigned.
mbStartSession(s, volume, ctorOk, ctorState) ==
  LET s1 == initAudioContext(s, ctorOk, ctorState)
      s2 == IF s1.audioContext.state = "suspended" THEN ctxResume(s1) ELSE s1
  IN IF s1.fx.raised THEN s1
     ELSE [mbBuildBands([s2 EXCEPT !.currentVolume = volume], volume)
             EXCEPT !.isPlaying = TRUE]

\* startBrownNoise(volume) (lines 33-85)
mbStartBrownNoise(s, volume, ctorOk, ctorState) ==
  IF s.isPlaying THEN s
  ELSE mbStartSession(s, volume, ctorOk, ctorState)

\* stopBrownNoise() (lines 87-101)
mbStopBrownNoise(s) ==
  IF ~s.isPlaying THEN s
  ELSE [stopSources(s) EXCEPT !.bufferSources = << >>,
                              !.gainNodes = << >>,
                              !.isPlaying = FALSE]

\* setBrownNoiseVolume(volume) (lines 103-108)
mbSetBrownNoiseVolume(s, volume) ==
  [s EXCEPT !.currentVolume = volume,
            !.gainNodes = [i \in DOMAIN @ |->
               [@[i] EXCEPT !.gain = quotient(volume, Len(s.gainNodes))]]]

\* The beforeunload listener (lines 141-144)
mbOnBeforeUnload(s) == mbStopBrownNoise(s)

\* A session of the multi-band module can still be given fresh node ids.
HasBandIds == nextId + 3 * Len(Frequencies) <= MaxBandNodes

\* startBrownNoise(volume)
BandsStart ==
  \E volume \in Volumes, ctor \in CtorOutcomes :
    /\ isPlaying \/ HasBandIds
    /\ Install(mbStartBrownNoise(State, volume, ctor[1], ctor[2]),
               "start", "brown", volume)
    /\ UNCHANGED hidden

\* startBrownNoise() with the volume left to its default
BandsStartDefault ==
  \E ctor \in CtorOutcomes :
    /\ isPlaying \/ HasBandIds
    /\ Install(mbStartBrownNoise(State, DefaultVolume, ctor[1], ctor[2]),
               "start", "brown", DefaultVolume)
    /\ UNCHANGED hidden

\* stopBrownNoise()
BandsStop ==
  /\ Install(mbStopBrownNoise(State), "stop", "none", 0)
  /\ UNCHANGED hidden

\* setBrownNoiseVolume(volume)
BandsSetVolume ==
  \E volume \in Volumes :
    /\ Install(mbSetBrownNoiseVolume(State, volume), "setVolume", "none",
               volume)
    /\ UNCHANGED hidden

\* The page is hidden or shown.
BandsVisibilityChange ==
  \E ctor \in CtorOutcomes :
    /\ hidden' = ~hidden
    /\ Install(onVisibilityChange(State, ~hidden, ctor[1], ctor[2]),
               IF hidden THEN "pageShown" ELSE "pageHidden", "none", 0)

\* The page is about to unload.
BandsBeforeUnload ==
  /\ Install(mbOnBeforeUnload(State), "beforeUnload", "none", 0)
  /\ UNCHANGED hidden

NextBands ==
  \/ BandsStart
  \/ BandsStartDefault
  \/ BandsStop
  \/ BandsSetVolume
  \/ BandsVisibilityChange
  \/ BandsBeforeUnload
  \/ UserInteraction
  \/ PlatformResumes
  \/ PlatformSuspends
  \/ PlatformHaltsSource

SpecBands == Init /\ [][NextBands]_vars

\* ------------------------------------------------------------- properties

\* The engine state now.
EngineNow == Engine(State)

\* The ids of the nodes the engine references.
NodeIds ==
  {bufferSources[i].id : i \in DOMAIN bufferSources}
    \cup {gainNodes[i].id : i \in DOMAIN gainNodes}
    \cup {filterNodes[i].id : i \in DOMAIN filterNodes}

NoSessionNodes ==
  bufferSources = << >> /\ gainNodes = << >> /\ filterNodes = << >>

\* C1: a session exists if and only if the playing flag is true, and at most
\* one exists: while playing there is exactly one buffer source and exactly
\* one gain node, while not playing the source, gain and filter lists are
\* all empty.
C1_SessionIffPlaying ==
  /\ isPlaying => Len(bufferSources) = 1 /\ Len(gainNodes) = 1
  /\ ~isPlaying => NoSessionNodes

\* A second session is live: the first one took the ids up to 2 at least.
C1_Witness ==
  /\ isPlaying
  /\ Len(bufferSources) = 1
  /\ bufferSources[1].id > 2
  /\ op.name = "changeType"

\* C2: startNoise(t2, v2) while the engine is playing changes nothing: flag,
\* stored type, stored volume, gain value, session nodes and audio context
\* all stay as they are, whatever t2 and v2.
C2_StartWhilePlayingIsNoOp ==
  [][(op'.name = "start" /\ isPlaying) =>
        (EngineNow' = EngineNow /\ ~op'.raised)]_vars

\* A start was called on a playing engine with another type and volume than
\* the session's.
C2_Witness ==
  /\ op.name = "start"
  /\ op.wasPlaying
  /\ isPlaying
  /\ op.noiseType # currentNoiseType
  /\ op.volume # currentVolume
  /\ gainNodes[1].gain = currentVolume

\* The chain from the source through the filters to the gain node: the
\* source feeds the first stage, each stage the next, the last the gain node
\* (and the source feeds the gain node when there is no stage).
Cascaded ==
  LET n == Len(filterNodes)
      gainId == gainNodes[1].id
  IN /\ bufferSources[1].out = {IF n = 0 THEN gainId ELSE filterNodes[1].id}
     /\ \A i \in 1..n :
          filterNodes[i].out = {IF i = n THEN gainId ELSE filterNodes[i + 1].id}

\* C3: while the engine is playing the live filter chain is the stored
\* type's: no stage for white, one high-pass stage at 100 Hz with Q 0.707
\* for pink, two cascaded low-pass stages at 500 Hz then 200 Hz with Q 0.707
\* each for brown.
C3_ChainMatchesType ==
  isPlaying =>
    /\ currentNoiseType \in NoiseTypes
    /\ Cascaded
    /\ currentNoiseType = "white" => filterNodes = << >>
    /\ currentNoiseType = "pink" =>
         /\ Len(filterNodes) = 1
         /\ filterNodes[1].type = "highpass"
         /\ filterNodes[1].frequency = 100
         /\ filterNodes[1].Q = 707
    /\ currentNoiseType = "brown" =>
         /\ Len(filterNodes) = 2
         /\ \A i \in 1..2 : filterNodes[i].type = "lowpass" /\ filterNodes[i].Q = 707
         /\ filterNodes[1].frequency = 500
         /\ filterNodes[2].frequency = 200

\* A pink session started from idle after a four-node brown session was
\* stopped.
C3_Witness ==
  /\ isPlaying
  /\ op.name = "start"
  /\ ~op.wasPlaying
  /\ currentNoiseType = "pink"
  /\ Len(filterNodes) = 1
  /\ bufferSources[1].id = 5

\* The number of filter stages of a type's chain.
Stages(noiseType) ==
  IF noiseType = "brown" THEN 2 ELSE IF noiseType = "pink" THEN 1 ELSE 0

\* C4: changeNoiseType(newType) while playing leaves the engine playing one
\* freshly built session of newType, its gain the volume that was current
\* before the call, and none of the previous session's nodes referenced.
C4_ChangeTypeRebuilds ==
  [][(op'.name = "changeType" /\ isPlaying) =>
        /\ isPlaying'
        /\ ~op'.raised
        /\ currentNoiseType' = op'.noiseType
        /\ currentVolume' = currentVolume
        /\ Len(bufferSources') = 1
        /\ Len(gainNodes') = 1
        /\ gainNodes'[1].gain = currentVolume
        /\ Len(filterNodes') = Stages(op'.noiseType)
        /\ NodeIds' \cap NodeIds = {}
        /\ \A id \in NodeIds' : id > nextId]_vars

\* A two-stage session was changed to white: no stage is left.
C4_Witness ==
  /\ op.name = "changeType"
  /\ op.wasPlaying
  /\ op.noiseType = "white"
  /\ isPlaying
  /\ filterNodes = << >>
  /\ bufferSources[1].id = 5
  /\ gainNodes[1].gain # DefaultVolume

\* C5 as stated: after setBrownNoiseVolume(v) on an idle engine, the next
\* start plays with gain v.
C5_NextStartUsesStoredVolume ==
  [][(op.name = "setVolume" /\ ~op.wasPlaying /\ ~isPlaying
        /\ op'.name = "start" /\ isPlaying') =>
        gainNodes'[1].gain = op.volume]_vars

\* C5, amended: setBrownNoiseVolume(v) on an idle engine stores v as the
\* current volume and creates no node; a start from idle plays with the
\* gain of its own volume argument and stores that argument, whatever was
\* stored before.
C5_SetVolumeIdleStoresStartOverrides ==
  [][/\ (op'.name = "setVolume" /\ ~isPlaying) =>
          (currentVolume' = op'.volume /\ ~isPlaying' /\ NoSessionNodes')
     /\ (op'.name = "start" /\ ~isPlaying /\ isPlaying') =>
          (gainNodes'[1].gain = op'.volume /\ currentVolume' = op'.volume)]_vars

\* A volume other than the initial one was set on an idle engine.
C5_Witness ==
  /\ op.name = "setVolume"
  /\ ~op.wasPlaying
  /\ ~isPlaying
  /\ currentVolume = op.volume
  /\ op.volume # DefaultVolume

\* C6: while a session is active the live gain node's value is the stored
\* current volume.
C6_GainIsCurrentVolume ==
  isPlaying =>
    /\ gainNodes # << >>
    /\ \A i \in DOMAIN gainNodes : gainNodes[i].gain = currentVolume

\* A volume was set on a playing engine and reached the gain node.
C6_Witness ==
  /\ op.name = "setVolume"
  /\ op.wasPlaying
  /\ isPlaying
  /\ op.volume # DefaultVolume
  /\ gainNodes[1].gain = op.volume

\* A node without its parameter values: what it is and what it feeds.
Identity(node) == [id |-> node.id, out |-> node.out]

\* C7: setBrownNoiseVolume(v) leaves the playing flag, the stored type and
\* the session's nodes as they are, playing or idle.
C7_SetVolumeKeepsSession ==
  [][op'.name = "setVolume" =>
        /\ isPlaying' = isPlaying
        /\ currentNoiseType' = currentNoiseType
        /\ bufferSources' = bufferSources
        /\ filterNodes' = filterNodes
        /\ Len(gainNodes') = Len(gainNodes)
        /\ \A i \in DOMAIN gainNodes :
             Identity(gainNodes'[i]) = Identity(gainNodes[i])
        /\ nextId' = nextId
        /\ audioContext' = audioContext
        /\ ~op'.raised]_vars

\* The volume of a playing two-stage session was changed.
C7_Witness ==
  /\ op.name = "setVolume"
  /\ op.wasPlaying
  /\ isPlaying
  /\ Len(filterNodes) = 2
  /\ gainNodes[1].gain = op.volume
  /\ op.volume = 0

\* C8: stopBrownNoise is idempotent.  Run on any reachable state it raises
\* nothing and leaves an idle engine without session nodes; run again on
\* that result it raises nothing and returns it unchanged; and a stop step
\* taken by an idle engine changes nothing.
C8_StopIdempotent ==
  /\ [](LET once  == stopBrownNoise(State)
            twice == stopBrownNoise([once EXCEPT !.fx = NoEffects])
        IN /\ ~once.fx.raised
           /\ ~twice.fx.raised
           /\ Engine(twice) = Engine(once)
           /\ ~isBrownNoisePlaying(twice)
           /\ twice.bufferSources = << >>
           /\ twice.gainNodes = << >>
           /\ twice.filterNodes = << >>)
  /\ [][op'.name = "stop" =>
          /\ ~op'.raised
          /\ ~isPlaying'
          /\ NoSessionNodes'
          /\ ~isPlaying => EngineNow' = EngineNow]_vars

\* A stop was called on an engine that an earlier stop had left idle.
C8_Witness ==
  /\ op.name = "stop"
  /\ ~op.wasPlaying
  /\ ~isPlaying
  /\ NoSessionNodes
  /\ nextId > 0

\* C9: a stop of a session whose buffer player raises on stop() swallows the
\* error: nothing reaches the caller, every source, filter and gain
\* reference is released and the playing flag is cleared.
C9_StopSwallowsHaltedSource ==
  [][(op'.name = "stop" /\ isPlaying
        /\ \E i \in DOMAIN bufferSources : bufferSources[i].halted) =>
        /\ ~op'.raised
        /\ op'.caught
        /\ NoSessionNodes'
        /\ ~isPlaying']_vars

\* A stop caught the error of a halted player and completed.
C9_Witness ==
  /\ op.name = "stop"
  /\ op.wasPlaying
  /\ op.caught
  /\ ~op.raised
  /\ ~isPlaying
  /\ NoSessionNodes

\* C10: a start whose AudioContext constructor fails raises to its caller
\* and leaves the engine as it was: idle, without nodes or context, stored
\* type and volume kept, no listener added.  A start on an idle engine
\* without a context always runs the constructor, so a later start tries
\* again.
C10_ContextFailureLeavesStateAlone ==
  [][op'.name = "start" =>
        /\ (op'.ctorCalled /\ ~audioContext'.exists) => op'.raised
        /\ op'.raised =>
             /\ EngineNow' = EngineNow
             /\ ~isPlaying'
             /\ NoSessionNodes'
             /\ ~audioContext'.exists
             /\ resumeListeners' = resumeListeners
             /\ nextId' = nextId
        /\ (~isPlaying /\ ~audioContext.exists) => op'.ctorCalled]_vars

\* A start with another type and volume than the stored ones failed to
\* create the context.
C10_Witness ==
  /\ op.name = "start"
  /\ op.raised
  /\ op.ctorCalled
  /\ ~isPlaying
  /\ ~audioContext.exists
  /\ op.noiseType # currentNoiseType
  /\ op.volume # currentVolume

\* The nodes the engine references, with everything they hold.
SessionNodes == <<bufferSources, gainNodes, filterNodes>>

\* C11: a page-hidden event takes no action on the engine: flag, type,
\* volume, session nodes and audio context stay as they are, so a session
\* playing before the page is hidden is playing after.
C11_PageHiddenChangesNothing ==
  [][op'.name = "pageHidden" =>
        /\ hidden'
        /\ EngineNow' = EngineNow
        /\ nextId' = nextId
        /\ resumeListeners' = resumeListeners
        /\ ~op'.raised /\ ~op'.resumeCalled /\ ~op'.ctorCalled]_vars

\* The page was hidden while a session played, and it plays on.
C11_Witness ==
  /\ op.name = "pageHidden"
  /\ op.wasPlaying
  /\ hidden
  /\ isPlaying
  /\ Len(bufferSources) = 1
  /\ bufferSources[1].started

\* C12: a page-shown event leaves flag, type, volume and session nodes as
\* they are; when the engine plays and the context is suspended it calls
\* resume() on the context; when the engine does not play it calls neither
\* resume() nor the constructor and leaves the context alone.
C12_PageShownResumesSuspended ==
  [][op'.name = "pageShown" =>
        /\ ~hidden'
        /\ isPlaying' = isPlaying
        /\ currentNoiseType' = currentNoiseType
        /\ currentVolume' = currentVolume
        /\ SessionNodes' = SessionNodes
        /\ (isPlaying /\ audioContext.state = "suspended") =>
             (op'.resumeCalled /\ audioContext'.resumeRequested)
        /\ ~isPlaying =>
             (~op'.resumeCalled /\ ~op'.ctorCalled
                /\ audioContext' = audioContext)]_vars

\* The page was shown while a session played on a suspended context that
\* nothing had asked to resume since its suspension: the listener asked.
C12_Witness ==
  /\ op.name = "pageShown"
  /\ op.wasPlaying
  /\ op.resumeCalled
  /\ isPlaying
  /\ audioContext.state = "suspended"
  /\ audioContext.resumeRequested

\* C13: after a beforeunload event the engine is not playing and references
\* no session node; the event does what stopBrownNoise() does.
C13_BeforeUnloadStops ==
  [][op'.name = "beforeUnload" =>
        /\ ~isPlaying'
        /\ NoSessionNodes'
        /\ ~op'.raised
        /\ EngineNow' = Engine(stopBrownNoise(State))]_vars

\* The page unloaded while a session played.
C13_Witness ==
  /\ op.name = "beforeUnload"
  /\ op.wasPlaying
  /\ ~isPlaying
  /\ NoSessionNodes

\* C14: changeNoiseType(newType) on an idle engine changes nothing and
\* raises nothing: no session, no context, stored type and volume kept.
C14_ChangeTypeIdleIsNoOp ==
  [][(op'.name = "changeType" /\ ~isPlaying) =>
        /\ EngineNow' = EngineNow
        /\ ~isPlaying'
        /\ NoSessionNodes'
        /\ nextId' = nextId
        /\ resumeListeners' = resumeListeners
        /\ ~op'.raised /\ ~op'.ctorCalled /\ ~op'.resumeCalled]_vars

\* changeNoiseType was called with another type than the stored one on an
\* engine that never had a context.
C14_Witness ==
  /\ op.name = "changeType"
  /\ ~op.wasPlaying
  /\ ~isPlaying
  /\ op.noiseType # currentNoiseType
  /\ ~audioContext.exists

LifecycleEvents == {"pageHidden", "pageShown", "beforeUnload"}

\* C15: each lifecycle event has the one listener registered when the module
\* was loaded, whatever engine operations ran since, and each lifecycle event
\* runs that listener exactly once.
C15_ListenersRegisteredOnce ==
  /\ hostListeners.visibilitychange = 1
  /\ hostListeners.beforeunload = 1
  /\ op.name \in LifecycleEvents => op.handlerRuns = 1
  /\ op.name \notin LifecycleEvents => op.handlerRuns = 0

\* A page-shown event after two sessions were built ran the listener once.
C15_Witness ==
  /\ op.name = "pageShown"
  /\ op.handlerRuns = 1
  /\ isPlaying
  /\ bufferSources[1].id > 2

\* C16: a context created suspended gets the resume closure registered for
\* click and touchstart, one created running gets none; an interaction the
\* closure is registered for calls resume(), any other calls nothing; when a
\* resume() made by the closure completes (the context runs) both listeners
\* are gone; and once the context exists it stays and no listener is added.
C16_ResumeDeferredToInteraction ==
  [][/\ (~audioContext.exists /\ audioContext'.exists) =>
          resumeListeners' =
            (IF audioContext'.state = "suspended" THEN InteractionEvents ELSE {})
     /\ audioContext.exists =>
          (audioContext'.exists /\ resumeListeners' \subseteq resumeListeners
             /\ ~op'.ctorCalled)
     /\ op'.name \in InteractionEvents =>
          (op'.resumeCalled <=> op'.name \in resumeListeners)
     /\ (thenPending \/ op'.resumeCalled) /\ op'.name \in InteractionEvents
          /\ audioContext'.state = "suspended" => thenPending'
     /\ thenPending' => audioContext'.state = "suspended"
     /\ (thenPending /\ audioContext'.state = "running") =>
          (resumeListeners' = {} /\ op'.listenersRemoved)
     /\ (resumeListeners = {} /\ audioContext.exists) => resumeListeners' = {}]_vars

\* The resume a click or touchstart asked for on a suspended context was
\* granted, and its then-callback removed the listeners.
C16_Witness ==
  /\ op.name = "platformResumes"
  /\ op.listenersRemoved
  /\ resumeListeners = {}
  /\ ~thenPending
  /\ audioContext.state = "running"

\* ---------------------------------------------------- timer UI properties

\* The timer is in a running work interval.
Working == isRunning /\ ~isPaused /\ ~isBreak

\* C17: after every UI event and the effects it triggers, the engine is
\* playing if and only if the timer is running, not paused and not in a
\* break; so noise never plays during a break or while paused.
C17_NoiseIffWorking == isPlaying <=> Working

\* A break is being counted down, after a focus interval that was counted
\* to its end with noise, and the engine is silent.
C17_Witness ==
  /\ isRunning /\ ~isPaused /\ isBreak
  /\ pomodoroCount = 1
  /\ timeRemaining < breakMinutes * SecondsPerMinute
  /\ ~isPlaying
  /\ nextId > 0

\* C18: whenever the engine plays under the timer UI, its noise type, its
\* filter chain and its live gain are those of the UI's selected noiseType
\* and noiseVolume.
C18_EngineFollowsSelection ==
  isPlaying =>
    /\ currentNoiseType = uiNoiseType
    /\ Len(filterNodes) = nodesNeeded(uiNoiseType) - 2
    /\ Len(gainNodes) = 1
    /\ gainNodes[1].gain = noiseVolume
    /\ currentVolume = noiseVolume

\* The engine plays its second session, made by a resume, with a type and
\* a volume that are not the defaults and not those of the first session:
\* the first session took four nodes, so it was brown, and this one is pink.
C18_Witness ==
  /\ isPlaying
  /\ uiNoiseType = "pink"
  /\ noiseVolume = 0
  /\ nextId = nodesNeeded("brown") + nodesNeeded("pink")
  /\ gainNodes[1].id = nodesNeeded("brown") + 2

\* C19, its steps: a tick that takes a running countdown to zero ends a
\* focus interval with one more pomodoro, the break phase and breakMinutes
\* * 60 seconds, and ends a break with the focus phase, focusMinutes * 60
\* seconds and the same count; either way the timer is no longer running
\* or paused.  pomodoroCount changes in no other step.
C19_PhaseSwitch ==
  /\ [][op'.name = "tick" /\ timeRemaining = 1 =>
          /\ ~isRunning' /\ ~isPaused'
          /\ IF ~isBreak
             THEN /\ pomodoroCount' = pomodoroCount + 1
                  /\ isBreak'
                  /\ timeRemaining' = breakMinutes * SecondsPerMinute
             ELSE /\ pomodoroCount' = pomodoroCount
                  /\ ~isBreak'
                  /\ timeRemaining' = focusMinutes * SecondsPerMinute]_vars
  /\ [][pomodoroCount' # pomodoroCount =>
          op'.name = "tick" /\ timeRemaining = 1 /\ ~isBreak]_vars

\* C19, its invariant: timeRemaining is never negative.
C19_NeverNegative == timeRemaining >= 0

\* C19: a running countdown that reaches zero switches the phase and stops
\* the timer, pomodoroCount changes at no other time, and timeRemaining is
\* never negative.
C19_TimerEndSwitchesPhase == C19_PhaseSwitch /\ []C19_NeverNegative

\* C20: a reset, by the button or by the R key, leaves the timer idle in the
\* focus phase with 60 times the configured focusMinutes on the clock, and
\* the noise stopped.
C20_ResetReturnsToIdleFocus ==
  [][op'.name \in {"clickReset", "keyR"} =>
       /\ ~isRunning' /\ ~isPaused' /\ ~isBreak'
       /\ focusMinutes' = focusMinutes
       /\ timeRemaining' = SecondsPerMinute * focusMinutes
       /\ ~isPlaying']_vars

\* ------------------------------------------- multi-band module properties

\* The sum of two fractions.
plus(p, q) ==
  [num |-> p.num * q.den + q.num * p.den, den |-> p.den * q.den]

\* The sum of the gain values of nodes 1..n.
RECURSIVE gainSum(_)
gainSum(n) ==
  IF n = 0 THEN quotient(0, 1) ELSE plus(gainSum(n - 1), gainNodes[n].gain)

\* C21, its invariant: the module is playing if and only if it holds exactly
\* seven buffer sources and seven gain nodes, and holds none otherwise;
\* while playing every gain value is currentVolume / 7 and the gain values
\* sum to currentVolume.
C21_SevenBandsShareVolume ==
  /\ isPlaying <=> (Len(bufferSources) = 7 /\ Len(gainNodes) = 7)
  /\ ~isPlaying => bufferSources = << >> /\ gainNodes = << >>
  /\ isPlaying =>
       /\ \A i \in DOMAIN gainNodes :
            /\ gainNodes[i].gain.den # 0
            /\ gainNodes[i].gain.num * 7 = currentVolume * gainNodes[i].gain.den
       /\ gainSum(Len(gainNodes)).num
            = currentVolume * gainSum(Len(gainNodes)).den

\* C21, its steps: the current volume is the v of a startBrownNoise(v) that
\* started a session and of any setBrownNoiseVolume(v).
C21_VolumeIsTheArgument ==
  [][/\ (op'.name = "start" /\ ~isPlaying /\ isPlaying')
          => currentVolume' = op'.volume
     /\ op'.name = "setVolume" => currentVolume' = op'.volume]_vars

\* C21: in every reachable state of the multi-band module, playing means
\* exactly seven sources and seven gain nodes (none otherwise), each gain
\* currentVolume / 7, summing to the current volume after startBrownNoise(v)
\* and after any setBrownNoiseVolume(v).
C21_MultiBandSession == []C21_SevenBandsShareVolume /\ C21_VolumeIsTheArgument

\* The second session plays, and its volume was just set to a value that
\* is not the default.
C21_Witness ==
  /\ isPlaying
  /\ op.name = "setVolume"
  /\ op.wasPlaying
  /\ currentVolume = 2
  /\ nextId = 6 * Len(Frequencies)
  /\ Len(gainNodes) = 7

====
